---- MODULE Spec2Model ----
(***************************************************************************)
(* Model of make-pngs.py: main() and convert_ase_to_png(assets_dir).       *)
(* The environment (kind of the given path, directory contents, outcome of *)
(* every aseprite invocation) is nondeterministic; the script's control    *)
(* flow, counters, printed lines and return/exit values follow the source. *)
(***************************************************************************)
EXTENDS Integers, Sequences, FiniteSets, TLC

\* ------------------------------------------------------------------ bounds
MaxStems == 3

\* ------------------------------------------------------------- environment
Stems == 1..MaxStems
Exts == {"ase", "png"}
\* directory entries: <<stem, extension>>
Names == Stems \X Exts
ExitCodes == {0, 2}
PathKinds == {"missing", "file", "dir"}

\* what one call of subprocess.run(cmd, capture_output, text, check=True) can do:
\*   "exit"     the process ran and exited with code (non-zero raises
\*              CalledProcessError because of check=True)
\*   "notfound" FileNotFoundError: the executable could not be located
\*   "fault"    any other Exception
\* wrote = the tool wrote the destination file during the call
RunOutcomes ==
    [kind : {"exit"}, code : ExitCodes, wrote : BOOLEAN]
      \cup [kind : {"fault"}, code : {0}, wrote : BOOLEAN]
      \cup [kind : {"notfound"}, code : {0}, wrote : {FALSE}]

VARIABLES
    pathKind,       \* what assets_dir names on disk
    disk,           \* entries of the directory right now
    disk0,          \* entries of the directory when the run started
    pc,             \* position of the script
    ase_files,      \* list(assets_path.glob("*.ase"))
    idx,            \* number of completed loop iterations
    success_count,
    error_count,
    inflight,       \* indices of files whose subprocess.run call is open
    hung,           \* the open call will never return
    invoked,        \* files for which subprocess.run was called, in order
    outcomes,       \* per classified call: outcome, destination state, class
    listed,         \* the directory was enumerated
    out,            \* printed lines, as <<tag, n1, n2>>
    result,         \* return value of convert_ase_to_png: "none"/"True"/"False"
    sys_exit        \* <<>> until sys.exit(code), then <<code>>

vars == <<pathKind, disk, disk0, pc, ase_files, idx, success_count,
          error_count, inflight, hung, invoked, outcomes, listed, out,
          result, sys_exit>>

\* ----------------------------------------------------------------- helpers
\* Path.exists()
exists(kind) == kind # "missing"

is_dir_any(kind) == kind # "missing"
\* Path.is_dir()
is_dir(kind) == kind = "dir"

glob_all(entries) == entries

\* assets_path.glob("*.ase"): the matching entries (order is the listing's)
glob(entries) == {n \in entries : n[2] = "ase"}

\* list(...) of a set in some enumeration order
Orderings(S) ==
    {s \in [1..Cardinality(S) -> S] :
        \A i, j \in 1..Cardinality(S) : i # j => s[i] # s[j]}

\* ase_file.with_suffix('.png')
with_suffix(name, ext) == <<name[1], ext>>

Classify_nonzeroFatal(o, pngExists) ==
    IF o.kind = "notfound" THEN "unavailable"
    ELSE IF o.kind = "fault" THEN "unexpected"
    ELSE IF o.code # 0 THEN "unavailable"
    ELSE IF pngExists THEN "success" ELSE "missing_output"

Classify_notfoundGeneric(o, pngExists) ==
    IF o.kind = "notfound" THEN "unexpected"
    ELSE IF o.kind = "fault" THEN "unexpected"
    ELSE IF o.code # 0 THEN "tool_failure"
    ELSE IF pngExists THEN "success" ELSE "missing_output"

Classify_noExistsCheck(o, pngExists) ==
    IF o.kind = "notfound" THEN "unavailable"
    ELSE IF o.kind = "fault" THEN "unexpected"
    ELSE IF o.code # 0 THEN "tool_failure"
    ELSE "success"

\* the try/except of the loop body: which branch handles the call
Classify(o, pngExists) ==
    IF o.kind = "notfound" THEN "unavailable"          \* except FileNotFoundError
    ELSE IF o.kind = "fault" THEN "unexpected"         \* except Exception
    ELSE IF o.code # 0 THEN "tool_failure"             \* except CalledProcessError
    ELSE IF pngExists THEN "success" ELSE "missing_output"

Tally_dropMissing(cls, s, f) ==
    IF cls = "success" THEN <<s + 1, f>>
    ELSE IF cls \in {"tool_failure", "unexpected"} THEN <<s, f + 1>>
    ELSE <<s, f>>

\* the counter updates of the branches
Tally(cls, s, f) ==
    IF cls = "success" THEN <<s + 1, f>>
    ELSE IF cls \in {"missing_output", "tool_failure", "unexpected"}
         THEN <<s, f + 1>>
    ELSE <<s, f>>

\* the line(s) a branch prints
BranchLines(cls, name, o) ==
    IF cls = "success" THEN <<  <<"ok", name[1], 0>>  >>
    ELSE IF cls = "missing_output" THEN <<  <<"failed_to_create", name[1], 0>>  >>
    ELSE IF cls = "tool_failure" THEN <<  <<"command_failed", name[1], o.code>>  >>
    ELSE IF cls = "unexpected" THEN <<  <<"unexpected_error", name[1], 0>>  >>
    ELSE <<  <<"aseprite_not_found", 0, 0>>  >>

Summary_onlyOnError(s, f) ==
    IF f > 0
    THEN << <<"complete", 0, 0>>, <<"converted", s, 0>>, <<"failed", f, 0>> >>
    ELSE << >>

\* the summary block after the loop
Summary(s, f) ==
    << <<"complete", 0, 0>>, <<"converted", s, 0>> >>
      \o (IF f > 0 THEN << <<"failed", f, 0>> >> ELSE << >>)

ReturnValue_anySuccess(s, f) == IF f = 0 \/ s > 0 THEN "True" ELSE "False"

\* return error_count == 0
ReturnValue(s, f) == IF f = 0 THEN "True" ELSE "False"

\* main: sys.exit(0) if success else sys.exit(1)
ExitStatus(r) == IF r = "True" THEN 0 ELSE 1

\* ------------------------------------------------------------------- Init
Init ==
    /\ pathKind \in PathKinds
    /\ disk \in SUBSET Names
    /\ pathKind # "dir" => disk = {}
    /\ disk0 = disk
    /\ pc = "main"
    /\ ase_files = << >>
    /\ idx = 0
    /\ success_count = 0
    /\ error_count = 0
    /\ inflight = {}
    /\ hung = FALSE
    /\ invoked = << >>
    /\ outcomes = << >>
    /\ listed = FALSE
    /\ out = << >>
    /\ result = "none"
    /\ sys_exit = << >>

\* ---------------------------------------------------------------- actions
\* main(), up to the call of convert_ase_to_png
Main ==
    /\ pc = "main"
    /\ out' = Append(out, <<"header", 0, 0>>)
    /\ pc' = "convert"
    /\ UNCHANGED <<pathKind, disk, disk0, ase_files, idx, success_count,
                   error_count, inflight, hung, invoked, outcomes, listed,
                   result, sys_exit>>

\* convert_ase_to_png, from entry to the top of the loop
Discover ==
    /\ pc = "convert"
    /\ IF ~exists(pathKind) THEN
            /\ out' = Append(out, <<"error_not_exist", 0, 0>>)
            /\ result' = "False"
            /\ pc' = "returned"
            /\ UNCHANGED <<ase_files, listed, success_count, error_count>>
       ELSE IF ~is_dir(pathKind) THEN
            /\ out' = Append(out, <<"error_not_dir", 0, 0>>)
            /\ result' = "False"
            /\ pc' = "returned"
            /\ UNCHANGED <<ase_files, listed, success_count, error_count>>
       ELSE
            /\ listed' = TRUE
            /\ \E order \in Orderings(glob(disk)) : ase_files' = order
            /\ IF ase_files' = << >> THEN
                    /\ out' = Append(out, <<"no_files", 0, 0>>)
                    /\ result' = "True"
                    /\ pc' = "returned"
                    /\ UNCHANGED <<success_count, error_count>>
               ELSE
                    /\ out' = Append(out, <<"found", Len(ase_files'), 0>>)
                    /\ success_count' = 0
                    /\ error_count' = 0
                    /\ pc' = "loop"
                    /\ UNCHANGED result
    /\ UNCHANGED <<pathKind, disk, disk0, idx, inflight, hung, invoked,
                   outcomes, sys_exit>>

\* one loop iteration, up to the blocking subprocess.run call
Invoke ==
    /\ pc = "loop"
    /\ idx < Len(ase_files)
    /\ out' = Append(out, <<"converting", ase_files[idx + 1][1], 0>>)
    /\ invoked' = Append(invoked, ase_files[idx + 1])
    /\ inflight' = inflight \cup {idx + 1}
    /\ pc' = "running"
    /\ UNCHANGED <<pathKind, disk, disk0, ase_files, idx, success_count,
                   error_count, hung, outcomes, listed, result, sys_exit>>

\* subprocess.run returns or raises; the rest of the iteration
ToolReturns ==
    /\ pc = "running"
    /\ ~hung
    /\ \E o \in RunOutcomes :
        LET src == ase_files[idx + 1]
            png == with_suffix(src, "png")
            after == IF o.wrote THEN disk \cup {png} ELSE disk
            cls == Classify(o, png \in after)
            cnt == Tally(cls, success_count, error_count)
        IN  /\ disk' = after
            /\ outcomes' = Append(outcomes,
                   [kind |-> o.kind, code |-> o.code, wrote |-> o.wrote,
                    pngExists |-> png \in after, cls |-> cls])
            /\ out' = out \o BranchLines(cls, src, o)
            /\ success_count' = cnt[1]
            /\ error_count' = cnt[2]
            /\ inflight' = inflight \ {idx + 1}
            /\ IF cls = "unavailable"
               THEN /\ result' = "False"
                    /\ pc' = "returned"
                    /\ UNCHANGED idx
               ELSE /\ idx' = idx + 1
                    /\ pc' = "loop"
                    /\ UNCHANGED result
    /\ UNCHANGED <<pathKind, disk0, ase_files, hung, invoked, listed, sys_exit>>

ToolHangs_timeout ==
    /\ pc = "running"
    /\ ~hung
    /\ hung' = TRUE
    /\ error_count' = error_count + 1
    /\ idx' = idx + 1
    /\ inflight' = inflight \ {idx + 1}
    /\ pc' = "loop"
    /\ UNCHANGED <<pathKind, disk, disk0, ase_files, success_count, invoked,
                   outcomes, listed, out, result, sys_exit>>

\* the external tool never exits: subprocess.run has no timeout
ToolHangs ==
    /\ pc = "running"
    /\ ~hung
    /\ hung' = TRUE
    /\ UNCHANGED <<pathKind, disk, disk0, pc, ase_files, idx, success_count,
                   error_count, inflight, invoked, outcomes, listed, out,
                   result, sys_exit>>

\* loop exhausted: summary and return
Finish ==
    /\ pc = "loop"
    /\ idx = Len(ase_files)
    /\ out' = out \o Summary(success_count, error_count)
    /\ result' = ReturnValue(success_count, error_count)
    /\ pc' = "returned"
    /\ UNCHANGED <<pathKind, disk, disk0, ase_files, idx, success_count,
                   error_count, inflight, hung, invoked, outcomes, listed,
                   sys_exit>>

\* main(), after convert_ase_to_png returned
MainExit ==
    /\ pc = "returned"
    /\ out' = Append(out, IF result = "True" THEN <<"all_ok", 0, 0>>
                                             ELSE <<"some_failed", 0, 0>>)
    /\ sys_exit' = <<ExitStatus(result)>>
    /\ pc' = "exited"
    /\ UNCHANGED <<pathKind, disk, disk0, ase_files, idx, success_count,
                   error_count, inflight, hung, invoked, outcomes, listed,
                   result>>

Next ==
    \/ Main
    \/ Discover
    \/ Invoke
    \/ ToolReturns
    \/ ToolHangs
    \/ Finish
    \/ MainExit

Spec == Init /\ [][Next]_vars

\* the interpreter keeps running; a tool that does not hang returns
FairSpec ==
    /\ Spec
    /\ WF_vars(Main)
    /\ WF_vars(Discover)
    /\ WF_vars(Invoke)
    /\ WF_vars(ToolReturns)
    /\ WF_vars(Finish)
    /\ WF_vars(MainExit)

TypeOK ==
    /\ pathKind \in PathKinds
    /\ disk \subseteq Names
    /\ pc \in {"main", "convert", "loop", "running", "returned", "exited"}
    /\ idx \in 0..Len(ase_files)
    /\ success_count \in Nat
    /\ error_count \in Nat
    /\ result \in {"none", "True", "False"}

\* ------------------------------------------------------------------ claims

\* C1: the process exit code (and the value convert_ase_to_png returned) is
\* 0/True exactly when the path was a directory, the executable was found
\* for every file attempted and no file was counted as failed; otherwise 1.
C1_ExitCode ==
    LET good == /\ pathKind = "dir"
                /\ \A k \in 1..Len(outcomes) : outcomes[k].kind # "notfound"
                /\ error_count = 0
    IN  /\ result # "none" => (result = "True" <=> good)
        /\ sys_exit # << >> =>
              /\ sys_exit[1] \in {0, 1}
              /\ sys_exit[1] = 0 <=> good

C1_Witness ==
    /\ sys_exit = <<1>>
    /\ success_count >= 1
    /\ error_count >= 1

\* C2: with the executable found every time, every discovered file is
\* invoked exactly once, in discovery order, whatever failed before; one
\* non-zero exit among N otherwise successful files gives failed = 1,
\* succeeded = N - 1 and result False.
C2_NoShortCircuit ==
    LET n == Len(ase_files)
        resolvable == \A k \in 1..Len(outcomes) : outcomes[k].kind # "notfound"
        nonzero == {k \in 1..Len(outcomes) :
                       outcomes[k].kind = "exit" /\ outcomes[k].code # 0}
        fine == {k \in 1..Len(outcomes) :
                       /\ outcomes[k].kind = "exit"
                       /\ outcomes[k].code = 0
                       /\ outcomes[k].pngExists}
    IN  /\ Len(invoked) <= n
        /\ \A i \in 1..Len(invoked) : invoked[i] = ase_files[i]
        /\ \A i, j \in 1..Len(invoked) : i # j => invoked[i] # invoked[j]
        /\ (result # "none" /\ listed /\ resolvable) =>
              /\ invoked = ase_files
              /\ Len(outcomes) = n
              /\ (Cardinality(nonzero) = 1 /\ Cardinality(fine) = n - 1) =>
                    /\ error_count = 1
                    /\ success_count = n - 1
                    /\ result = "False"

C2_Witness ==
    /\ result = "False"
    /\ Len(ase_files) = 3
    /\ Len(outcomes) = 3
    /\ outcomes[1].cls = "tool_failure"
    /\ outcomes[2].cls = "success"
    /\ outcomes[3].cls = "success"

\* C3: when the executable is not found at the k-th file, no later file is
\* invoked and the result is False, whatever files 1..k-1 did.
C3_FatalAbort ==
    \A k \in 1..Len(outcomes) :
        outcomes[k].kind = "notfound" =>
            /\ Len(invoked) = k
            /\ Len(outcomes) = k
            /\ inflight = {}
            /\ pc \in {"returned", "exited"}
            /\ result = "False"
            /\ sys_exit # << >> => sys_exit = <<1>>

C3_Witness ==
    /\ pc = "exited"
    /\ Len(ase_files) = 3
    /\ Len(outcomes) = 2
    /\ outcomes[1].cls = "success"
    /\ outcomes[2].kind = "notfound"

\* C4: a call counts as succeeded iff it exited zero and the destination
\* exists afterwards; zero exit without destination and non-zero exit count
\* as failed; every non-fatal call adds exactly one to exactly one counter.
C4_Classification ==
    [][ Len(outcomes') = Len(outcomes) + 1 =>
          LET o == outcomes'[Len(outcomes')]
              zeroAndThere == o.kind = "exit" /\ o.code = 0 /\ o.pngExists
          IN  /\ success_count' = success_count + 1 <=> zeroAndThere
              /\ success_count' \in {success_count, success_count + 1}
              /\ (o.kind = "exit" /\ o.code = 0 /\ ~o.pngExists) =>
                    /\ error_count' = error_count + 1
                    /\ success_count' = success_count
              /\ (o.kind = "exit" /\ o.code # 0) =>
                    /\ error_count' = error_count + 1
                    /\ success_count' = success_count
              /\ o.kind # "notfound" =>
                    (success_count' + error_count'
                        = success_count + error_count + 1)
      ]_vars

C4_Witness ==
    /\ Len(outcomes) = 2
    /\ outcomes[1].kind = "exit" /\ outcomes[1].code = 0 /\ ~outcomes[1].pngExists
    /\ outcomes[2].kind = "exit" /\ outcomes[2].code # 0 /\ outcomes[2].pngExists
    /\ error_count = 2
    /\ success_count = 0

\* C5: a path that is missing or not a directory makes convert_ase_to_png
\* return False at once: no invocation, no listing, nothing on disk changed.
C5_Precondition ==
    (pathKind # "dir" /\ pc \notin {"main", "convert"}) =>
        /\ result = "False"
        /\ invoked = << >>
        /\ inflight = {}
        /\ ~listed
        /\ disk = disk0

C5_Witness ==
    /\ pathKind = "file"
    /\ pc = "returned"
    /\ result = "False"

\* C6 (as stated): a directory without .ase entries gives True, no
\* invocation, and a reported summary with zero counts.
C6_Original ==
    (pathKind = "dir" /\ {n \in disk0 : n[2] = "ase"} = {} /\ result # "none") =>
        /\ result = "True"
        /\ invoked = << >>
        /\ \E i \in 1..Len(out) : out[i] = <<"converted", 0, 0>>

\* C6 (amended): a directory without .ase entries gives True and no
\* invocation; the only line convert_ase_to_png prints is the no-files
\* notice, no summary is printed.
C6_ZeroFiles ==
    (pathKind = "dir" /\ {n \in disk0 : n[2] = "ase"} = {} /\ result # "none") =>
        /\ result = "True"
        /\ invoked = << >>
        /\ success_count = 0
        /\ error_count = 0
        /\ Len(out) >= 2
        /\ out[2] = <<"no_files", 0, 0>>
        /\ \A i \in 1..Len(out) : out[i][1] \notin {"complete", "converted", "failed"}

C6_Witness ==
    /\ pathKind = "dir"
    /\ <<1, "png">> \in disk0
    /\ {n \in disk0 : n[2] = "ase"} = {}
    /\ sys_exit = <<0>>

\* C7 (as stated): at every iteration boundary and every return, counts are
\* non-negative and the number of files invoked equals succeeded + failed.
C7_Original ==
    pc \in {"loop", "returned", "exited"} =>
        /\ success_count >= 0
        /\ error_count >= 0
        /\ Len(invoked) = success_count + error_count

\* C7 (amended): counts are non-negative; at every iteration boundary and at
\* every return other than the abort on a missing executable the number of
\* files invoked equals succeeded + failed; at that abort it is one more.
C7_SummaryInvariant ==
    LET aborted == \E k \in 1..Len(outcomes) : outcomes[k].kind = "notfound"
    IN  /\ success_count >= 0
        /\ error_count >= 0
        /\ pc \in {"loop", "returned", "exited"} =>
              Len(invoked) = success_count + error_count
                               + (IF aborted THEN 1 ELSE 0)

C7_Witness ==
    /\ pc = "returned"
    /\ Len(invoked) = 3
    /\ success_count = 1
    /\ error_count = 1
    /\ outcomes[3].kind = "notfound"

\* C8 (as stated): with at least one file discovered the summary is printed
\* before the return, after a complete loop and after an abort alike.
C8_Original ==
    (result # "none" /\ ase_files # << >>) =>
        \E i \in 1..Len(out) : out[i][1] = "complete"

\* C8 (amended): with at least one file discovered the summary is printed
\* before the return exactly when all discovered files were processed, and
\* it then carries the final counts; on the abort for a missing executable
\* no summary is printed.
C8_Summary ==
    LET aborted == \E k \in 1..Len(outcomes) : outcomes[k].kind = "notfound"
        printed == \E i \in 1..Len(out) : out[i][1] = "complete"
    IN  (result # "none" /\ ase_files # << >>) =>
            /\ printed <=> ~aborted
            /\ ~aborted =>
                  /\ \E i \in 1..Len(out) : out[i] = <<"converted", success_count, 0>>
                  /\ error_count > 0 =>
                        \E i \in 1..Len(out) : out[i] = <<"failed", error_count, 0>>

C8_Witness ==
    /\ result = "True"
    /\ Len(ase_files) = 2
    /\ success_count = 2
    /\ \E i \in 1..Len(out) : out[i] = <<"converted", 2, 0>>

\* C9: a file counts as succeeded only if its own invocation wrote the
\* destination during this run, also when a file of that name was there
\* before the run.
C9_ProducedThisRun ==
    \A k \in 1..Len(outcomes) :
        outcomes[k].cls = "success" => outcomes[k].wrote

\* C10: invocations are strictly sequential (at most one open call, the next
\* starts only after the previous was classified, at most N calls); once an
\* invocation hangs nothing further is invoked or returned; and unless an
\* invocation hangs the run ends.
C10_Sequencing ==
    /\ [](Cardinality(inflight) <= 1 /\ Len(invoked) <= Len(ase_files))
    /\ [][ Len(invoked') > Len(invoked) =>
              (inflight = {} /\ Len(outcomes) = Len(invoked)) ]_vars
    /\ [](hung => (pc = "running" /\ result = "none"))
    /\ [][ hung => (hung' /\ invoked' = invoked /\ result' = "none") ]_vars
    /\ <>(hung \/ pc = "exited")

C10_Witness ==
    /\ hung
    /\ Len(invoked) = 2
    /\ Len(ase_files) = 3

====
